---- MODULE Spec2Model ----
(***************************************************************************)
(* A model of lib/stack-metrics.js: the StackMetrics buffer (metricsMap,   *)
(* prevSendTimestamp), the StackMetric handles, and the asynchronous flush *)
(* cycle sendValues -> _sendCreateMetrics -> _sendTimeSeries, with the     *)
(* backend (createMetricDescriptor, createTimeSeries) as the environment.  *)
(*                                                                         *)
(* Numbers are exact rationals <<n, d>> (d > 0, lowest terms); JavaScript  *)
(* undefined is the empty tuple.  A metric name is the sequence of its     *)
(* '/'-separated segments, so that the descriptor type string and          *)
(* _getMetricName (split('/').pop()) are modelled by what they do.         *)
(***************************************************************************)
EXTENDS Integers, Sequences, FiniteSets, TLC

\* ------------------------------------------------------------------ bounds

\* flush cycles that may be suspended at the same time
MaxCycles == 2
\* calls the application and the timer make in one behaviour: createMetric,
\* handle writes, setStartTimestamp, sendValues, and advances of the clock
MaxOps == 4
\* the same, in the behaviours of SpecDeep
MaxDeepOps == 5
\* the same, in the behaviours of SpecLive
MaxLiveOps == 3

\* metric names used by the application: "a", "b" and "g/a"
Names == {<<"a">>, <<"b">>, <<"g", "a">>}
\* metric types the application creates
CreatedTypes == {"INT64", "RATE_PER_SECOND"}
\* values and deltas the application writes
WrittenValues == {1, 2}
\* the sendInterval argument of the constructor: left undefined
SendIntervalArgs == {<<>>}
\* milliseconds the clock advances by between two events
ClockSteps == {5000}

\* ------------------------------------------------------------- JS values

\* JavaScript undefined
Undefined == <<>>

Abs(n) == IF n < 0 THEN -n ELSE n

Min(a, b) == IF a < b THEN a ELSE b

RECURSIVE GCD(_, _)
GCD(a, b) == IF b = 0 THEN a ELSE GCD(b, a % b)

\* the number n/d (d > 0) in lowest terms
Rat(n, d) == LET g == GCD(Abs(n), d) IN <<n \div g, d \div g>>

Num(i) == <<i, 1>>

\* x + y
Plus(x, y) == Rat(x[1] * y[2] + y[1] * x[2], x[2] * y[2])

\* x / k for an integer k > 0
DivInt(x, k) == Rat(x[1], x[2] * k)

\* x * k for an integer k
TimesInt(x, k) == Rat(x[1] * k, x[2])

\* ---------------------------------------------------- static functions

VALUE_TYPE_INT64 == "INT64"
VALUE_TYPE_BOOL == "BOOL"
VALUE_TYPE_DOUBLE == "DOUBLE"

GetValueTypeForMetricType(metricType) ==
  CASE metricType = "INT64" -> VALUE_TYPE_INT64
    [] metricType = "BOOL" -> VALUE_TYPE_BOOL
    [] metricType = "DOUBLE" -> VALUE_TYPE_DOUBLE
    [] metricType = "RATE_PER_SECOND" -> VALUE_TYPE_DOUBLE
    [] metricType = "RATE_PER_MINUTE" -> VALUE_TYPE_DOUBLE
    [] metricType = "RATE_PER_HOUR" -> VALUE_TYPE_DOUBLE
    [] metricType = "RATE_PER_DAY" -> VALUE_TYPE_DOUBLE
    [] OTHER -> "throw"

\* the rate unit in milliseconds, <<>> (undefined) for a type that is no rate
GetRateIntervalForMetricType(metricType) ==
  CASE metricType = "RATE_PER_SECOND" -> <<1000>>
    [] metricType = "RATE_PER_MINUTE" -> <<1000 * 60>>
    [] metricType = "RATE_PER_HOUR" -> <<1000 * 3600>>
    [] metricType = "RATE_PER_DAY" -> <<1000 * 3600 * 24>>
    [] OTHER -> Undefined

\* 'custom.googleapis.com/' + metricGroupName + '/' + metricName, by segments
DescriptorType(metricName) == <<"custom.googleapis.com", "group">> \o metricName

\* type.split('/').pop(): the last segment, as a name
GetMetricName(type) == <<type[Len(type)]>>

\* the default of sendInterval
DefaultSendInterval == 5000

\* the timer's period: 0 when no timer is set
TimerInterval(arg) == IF arg = Undefined THEN DefaultSendInterval ELSE arg[1]

\* --------------------------------------------------------------- the Map

\* metricsMap is a JavaScript Map: its entries in insertion order
Has(map, name) == \E i \in 1..Len(map) : map[i].name = name

IndexOf(map, name) == CHOOSE i \in 1..Len(map) : map[i].name = name

Get(map, name) == map[IndexOf(map, name)]

\* a set that keeps the record a known key has
MapSetIfAbsent(map, rec) ==
  IF \E i \in 1..Len(map) : map[i].name = rec.name THEN map ELSE Append(map, rec)

\* Map.set: a known key keeps its place
MapSet(map, rec) ==
  IF Has(map, rec.name)
  THEN [map EXCEPT ![IndexOf(map, rec.name)] = rec]
  ELSE Append(map, rec)

\* metric.rateInterval as a condition
IsRate(metric) == metric.rateInterval # Undefined

RECURSIVE SelectSeqBy(_, _)
SelectSeqBy(s, keep) ==
  IF s = <<>> THEN <<>>
  ELSE IF keep[1] THEN <<Head(s)>> \o SelectSeqBy(Tail(s), Tail(keep))
       ELSE SelectSeqBy(Tail(s), Tail(keep))

\* ------------------------------------------------------------- the state

VARIABLES
  metricsMap,         \* StackMetrics.metricsMap
  prevSendTimestamp,  \* StackMetrics.prevSendTimestamp
  handles,            \* the StackMetric objects createMetric returned
  sendInterval,       \* the timer's period, 0: no timer
  now,                \* Date.now()
  lastTick,           \* when the timer last fired (or was set)
  cycles,             \* the sendValues calls: where each is suspended
  accepted,           \* backend: createMetricDescriptor requests accepted, by name (2: more than one)
  deltaSum,           \* history: rate deltas written since the previous flush
  lastWrite,          \* history: last gauge write since the last successful flush
  owed,               \* history: names whose value, buffered before a failed registration, is unsent
  call,               \* history: the write this step made: <<operation, name, result>>
  zeroed,             \* history: the last _sendTimeSeries ran with timestamp <= prevSendTimestamp
  clean,              \* history: a flush has succeeded undisturbed, and the buffer was not called since
  ops,                \* the calls made so far
  budget              \* the calls a behaviour may make

vars == <<metricsMap, prevSendTimestamp, handles, sendInterval, now, lastTick,
          cycles, accepted, deltaSum, lastWrite, owed, call, zeroed, clean, ops,
          budget>>

Slots == 1..MaxCycles

IdleCycle ==
  [pc |-> "idle", trigger |-> "none", timestamp |-> 0, requested |-> <<>>,
   request |-> <<>>, outcome |-> "none", report |-> "none", startMap |-> <<>>,
   wrote |-> FALSE, late |-> {}]

\* history: the step was no write
NoCall == <<"none">>

\* the state a constructed StackMetrics is in
Constructed ==
  /\ metricsMap = <<>>
  /\ prevSendTimestamp = 0
  /\ handles = <<>>
  /\ \E arg \in SendIntervalArgs : sendInterval = TimerInterval(arg)
  /\ now = 0
  /\ lastTick = 0
  /\ cycles = [c \in Slots |-> IdleCycle]
  /\ accepted = [n \in Names |-> 0]
  /\ deltaSum = [n \in Names |-> Num(0)]
  /\ lastWrite = [n \in Names |-> Undefined]
  /\ owed = {}
  /\ call = NoCall
  /\ zeroed = FALSE
  /\ clean = FALSE
  /\ ops = 0

Init == Constructed /\ budget = MaxOps

InitDeep == Constructed /\ budget = MaxDeepOps

InitLive == Constructed /\ budget = MaxLiveOps


\* ------------------------------------------------- application operations

\* history: every suspended cycle has seen a write to name; one suspended in
\* createTimeSeries has built its request without it
NoteWrite(name) ==
  [c \in Slots |->
    IF cycles[c].pc = "idle" THEN cycles[c]
    ELSE [cycles[c] EXCEPT
           !.wrote = TRUE,
           !.startMap = <<>>,
           !.late = IF cycles[c].pc = "submitting" THEN @ \cup {name} ELSE @]]

\* history: every suspended cycle has seen name created
NoteCreate(name) ==
  [c \in Slots |->
    IF cycles[c].pc = "idle" THEN cycles[c]
    ELSE [cycles[c] EXCEPT
           !.wrote = TRUE, !.startMap = <<>>, !.late = @ \ {name}]]

\* the record createMetric stores
NewMetric(metricName, metricType) ==
  LET rateInterval == GetRateIntervalForMetricType(metricType) IN
  [name |-> metricName,
   valueType |-> GetValueTypeForMetricType(metricType),
   requestDescriptor |->
     [type |-> DescriptorType(metricName),
      valueType |-> GetValueTypeForMetricType(metricType)],
   responseDescriptor |-> Undefined,
   rateInterval |-> rateInterval,
   value |-> IF rateInterval # Undefined THEN Num(0) ELSE Undefined]

CreateMetric(metricName, metricType) ==
  /\ ops < budget
  /\ GetValueTypeForMetricType(metricType) # "throw"
  /\ metricsMap' = MapSet(metricsMap, NewMetric(metricName, metricType))
  /\ handles' = Append(handles, [metricName |-> metricName, count |-> 0])
  /\ cycles' = NoteCreate(metricName)
  /\ owed' = owed \ {metricName}
  /\ clean' = FALSE
  /\ zeroed' = zeroed
  /\ call' = NoCall
  /\ deltaSum' = [deltaSum EXCEPT ![metricName] = Num(0)]
  /\ lastWrite' = [lastWrite EXCEPT ![metricName] = Undefined]
  /\ ops' = ops + 1
  /\ budget' = budget
  /\ UNCHANGED <<prevSendTimestamp, sendInterval, now, lastTick, accepted>>

\* the value writeMetric leaves in a metric
WrittenValue(metric, value) ==
  IF IsRate(metric) THEN Plus(metric.value, value) ELSE value

\* StackMetrics.writeMetric on a name the map holds
WriteMetric(map, metricName, value) ==
  LET i == IndexOf(map, metricName) IN
  [map EXCEPT ![i].value = WrittenValue(map[i], value)]

\* what a handle's write does to the buffer and to the history
Forward(metricName, value) ==
  LET metric == Get(metricsMap, metricName) IN
  /\ metricsMap' = WriteMetric(metricsMap, metricName, value)
  /\ deltaSum' = IF IsRate(metric)
                 THEN [deltaSum EXCEPT ![metricName] = Plus(@, value)]
                 ELSE deltaSum
  /\ lastWrite' = IF IsRate(metric)
                  THEN lastWrite
                  ELSE [lastWrite EXCEPT ![metricName] = value]
  /\ cycles' = NoteWrite(metricName)
  /\ owed' = owed \ {metricName}
  /\ clean' = FALSE
  /\ zeroed' = zeroed
  /\ ops' = ops + 1
  /\ budget' = budget
  /\ UNCHANGED <<prevSendTimestamp, sendInterval, now, lastTick, accepted>>

\* what writeCount hands to writeMetric, given the new running total
CountForwarded(count, delta) == count

\* StackMetric.writeCount
WriteCount(h, delta) ==
  /\ ops < budget
  /\ LET count == handles[h].count + delta IN
     /\ handles' = [handles EXCEPT ![h].count = count]
     /\ call' = <<"writeCount", handles[h].metricName, "returned">>
     /\ Forward(handles[h].metricName, Num(CountForwarded(count, delta)))

\* StackMetric.writeRate
WriteRate(h, delta) ==
  /\ ops < budget
  /\ handles' = handles
  /\ call' = <<"writeRate", handles[h].metricName, "returned">>
  /\ Forward(handles[h].metricName, Num(delta))

\* StackMetric.write
Write(h, value) ==
  /\ ops < budget
  /\ handles' = handles
  /\ call' = <<"write", handles[h].metricName, "returned">>
  /\ Forward(handles[h].metricName, Num(value))

\* StackMetrics.writeMetric called with a name the map does not hold:
\* metricsMap.get returns undefined and reading its rateInterval throws
WriteUnknownMetric(metricName, value) ==
  /\ ops < budget
  /\ ~Has(metricsMap, metricName)
  /\ call' = <<"writeMetric", metricName, "TypeError">>
  /\ ops' = ops + 1
  /\ budget' = budget
  /\ UNCHANGED <<metricsMap, prevSendTimestamp, handles, sendInterval, now,
                 lastTick, cycles, accepted, deltaSum, lastWrite, owed, clean, zeroed>>

SetStartTimestamp(timestamp) ==
  /\ ops < budget
  /\ prevSendTimestamp' = timestamp
  /\ clean' = FALSE
  /\ zeroed' = zeroed
  /\ call' = NoCall
  /\ ops' = ops + 1
  /\ budget' = budget
  /\ UNCHANGED <<metricsMap, handles, sendInterval, now, lastTick, cycles,
                 accepted, deltaSum, lastWrite, owed>>

\* time passes
AdvanceClock(step) ==
  /\ ops < budget
  /\ now' = now + step
  /\ call' = NoCall
  /\ ops' = ops + 1
  /\ budget' = budget
  /\ UNCHANGED <<metricsMap, prevSendTimestamp, handles, sendInterval, lastTick,
                 cycles, accepted, deltaSum, lastWrite, owed, clean, zeroed>>


\* --------------------------------------------------------- the flush cycle

\* the slot a new sendValues call takes
FreeSlot(c) ==
  /\ cycles[c].pc = "idle"
  /\ \A b \in Slots : b < c => cycles[b].pc # "idle"

\* _sendCreateMetrics up to its await: one createMetricDescriptor request for
\* each metric without a responseDescriptor, in the map's order
PendingRequests(map) ==
  LET keep == [i \in 1..Len(map) |-> map[i].responseDescriptor = Undefined]
      all == [i \in 1..Len(map) |-> map[i].requestDescriptor]
  IN SelectSeqBy(all, keep)

\* sendValues(timestamp) up to the await in _sendCreateMetrics
StartSendValues(c, trigger, timestamp) ==
  /\ ops < budget
  /\ FreeSlot(c)
  /\ cycles' = [cycles EXCEPT ![c] =
       [pc |-> "registering", trigger |-> trigger, timestamp |-> timestamp,
        requested |-> PendingRequests(metricsMap), request |-> <<>>,
        outcome |-> "none", report |-> "none", startMap |-> metricsMap,
        wrote |-> FALSE, late |-> {}]]
  /\ call' = NoCall
  /\ ops' = ops + 1
  /\ budget' = budget
  /\ UNCHANGED <<metricsMap, prevSendTimestamp, handles, sendInterval, now,
                 accepted, deltaSum, lastWrite, owed, clean, zeroed>>

\* the setInterval callback: sendValues(Date.now())
TimerTick(c) ==
  /\ sendInterval # 0
  /\ now >= lastTick + sendInterval
  /\ lastTick' = now
  /\ StartSendValues(c, "timer", now)

\* the application calls sendValues(timestamp)
ExplicitSendValues(c, timestamp) ==
  /\ lastTick' = lastTick
  /\ StartSendValues(c, "explicit", timestamp)

\* the name a request was made for
RequestedName(descriptor) == SubSeq(descriptor.type, 3, Len(descriptor.type))

\* the backend accepts the requests at the indices in ok
Accept(requested, ok) ==
  [n \in Names |->
    Min(2, accepted[n] + Cardinality({i \in ok : RequestedName(requested[i]) = n}))]

\* responses.forEach: sets responseDescriptor of the metric named by the last
\* segment of each response's type; a name the map does not hold throws
RECURSIVE MarkResponses(_, _)
MarkResponses(map, responses) ==
  IF responses = <<>> THEN [map |-> map, error |-> FALSE]
  ELSE LET descriptor == Head(responses)
           name == GetMetricName(descriptor.type)
       IN IF ~Has(map, name) THEN [map |-> map, error |-> TRUE]
          ELSE MarkResponses(
                 [map EXCEPT ![IndexOf(map, name)].responseDescriptor = <<descriptor>>],
                 Tail(responses))

\* a caller that catches every error of sendValues and logs it
CaughtReport(trigger, outcome) ==
  IF outcome = "resolved" THEN "fulfilled" ELSE "warned"

\* what the caller of sendValues gets: the timer callback awaits it in a
\* try/catch that logs a warning, the application gets the promise
Report(trigger, outcome) ==
  CASE outcome = "resolved" -> "fulfilled"
    [] outcome # "resolved" /\ trigger = "timer" -> "warned"
    [] OTHER -> "rejected"

\* a cycle's record once sendValues has settled
Settled(cycle, outcome) ==
  [cycle EXCEPT !.pc = "idle", !.outcome = outcome,
                !.report = Report(cycle.trigger, outcome), !.requested = <<>>,
                !.startMap = <<>>, !.wrote = FALSE, !.late = {}]

\* every createMetricDescriptor of the cycle is accepted: Promise.all resolves
RegistrationResolves(c) ==
  /\ cycles[c].pc = "registering"
  /\ accepted' = Accept(cycles[c].requested, 1..Len(cycles[c].requested))
  /\ call' = NoCall
  /\ LET marked == MarkResponses(metricsMap, cycles[c].requested) IN
     /\ metricsMap' = marked.map
     /\ cycles' = [cycles EXCEPT ![c] =
          IF marked.error THEN Settled(@, "typeError")
          ELSE [@ EXCEPT !.pc = "registered"]]
  /\ UNCHANGED <<prevSendTimestamp, handles, sendInterval, now, lastTick,
                 deltaSum, lastWrite, owed, clean, zeroed, ops, budget>>

\* history: the names whose buffered value is still to be submitted
Unsent(map) ==
  {map[i].name : i \in {j \in 1..Len(map) : map[j].value \notin {Undefined, Num(0)}}}

\* history: the names whose value, buffered before cycle c started, is still
\* buffered unchanged when the cycle ends
StillBuffered(c) ==
  IF cycles[c].wrote THEN {}
  ELSE {n \in Unsent(cycles[c].startMap) :
          Get(metricsMap, n).value = Get(cycles[c].startMap, n).value}

\* the backend rejects a request (and accepts those in ok): Promise.all rejects
RegistrationRejects(c, ok) ==
  /\ cycles[c].pc = "registering"
  /\ ok \subseteq 1..Len(cycles[c].requested)
  /\ ok # 1..Len(cycles[c].requested)
  /\ accepted' = Accept(cycles[c].requested, ok)
  /\ call' = NoCall
  /\ cycles' = [cycles EXCEPT ![c] = Settled(@, "registrationError")]
  /\ owed' = owed \cup StillBuffered(c)
  /\ UNCHANGED <<metricsMap, prevSendTimestamp, handles, sendInterval, now,
                 lastTick, deltaSum, lastWrite, clean, zeroed, ops, budget>>

\* a conversion that leaves the sum alone when no time has elapsed
ConvertKeepingSum(value, d, rateInterval) ==
  IF d > 0 THEN TimesInt(DivInt(value, d), rateInterval) ELSE value

\* the rate a rate metric's value becomes in _sendTimeSeries
ConvertToRate(value, d, rateInterval) ==
  IF d > 0 THEN TimesInt(DivInt(value, d), rateInterval) ELSE Num(0)

\* the first loop of _sendTimeSeries
ConvertRates(map, timestamp) ==
  [i \in 1..Len(map) |->
    IF IsRate(map[i])
    THEN [map[i] EXCEPT !.value =
           ConvertToRate(@, timestamp - prevSendTimestamp, map[i].rateInterval[1])]
    ELSE map[i]]

CreateDataPoint(valueType, timestamp, value) ==
  [seconds |-> Rat(timestamp, 1000),
   key |-> CASE valueType = VALUE_TYPE_INT64 -> "int64Value"
             [] valueType = VALUE_TYPE_DOUBLE -> "doubleValue"
             [] valueType = VALUE_TYPE_BOOL -> "boolValue",
   value |-> value]

CreateTimeSeriesData(metric, timestamp) ==
  [type |-> metric.requestDescriptor.type,
   point |-> CreateDataPoint(metric.valueType, timestamp, metric.value)]

\* a request built without the filter on written values
IncludedUnfiltered(metric) == TRUE

\* a filter that also leaves out the rate metrics whose value is 0
IncludedNonZero(metric) == metric.value \notin {Undefined, Num(0)}

\* whether _sendTimeSeries puts a metric in the request
Included(metric) == IsRate(metric) \/ metric.value # Undefined

\* the timeSeries of the request
TimeSeriesData(map, timestamp) ==
  LET keep == [i \in 1..Len(map) |-> Included(map[i])]
      all == [i \in 1..Len(map) |-> CreateTimeSeriesData(map[i], timestamp)]
  IN SelectSeqBy(all, keep)

\* a prevSendTimestamp that moves only when there is something to send
AdvancedWhenSent(timestamp, data) ==
  IF Len(data) > 0 THEN timestamp ELSE prevSendTimestamp

\* the prevSendTimestamp _sendTimeSeries leaves, whatever the request holds
AdvancedTimestamp(timestamp, data) == timestamp

\* history: this step ends a successful flush during which nothing was created
\* or written, with no other flush in flight
AloneAfter(c) ==
  ~cycles[c].wrote /\ \A b \in Slots \ {c} : cycles[b].pc = "idle"

\* a sendValues that calls _sendTimeSeries without awaiting _sendCreateMetrics
Unawaited(cycle) == cycle.pc \in {"registering", "registered"}

\* sendValues calls _sendTimeSeries when the await of _sendCreateMetrics returns
AwaitedRegistration(cycle) == cycle.pc = "registered"

\* _sendTimeSeries up to its await (or to its end, with nothing to send)
SendTimeSeries(c) ==
  /\ AwaitedRegistration(cycles[c])
  /\ LET converted == ConvertRates(metricsMap, cycles[c].timestamp)
         data == TimeSeriesData(converted, cycles[c].timestamp)
     IN /\ metricsMap' = converted
        /\ cycles' = [cycles EXCEPT ![c] =
             IF Len(data) > 0
             THEN [@ EXCEPT !.pc = "submitting", !.request = data]
             ELSE Settled(@, "resolved")]
        /\ prevSendTimestamp' = AdvancedTimestamp(cycles[c].timestamp, data)
        /\ clean' = IF Len(data) > 0 THEN clean ELSE AloneAfter(c)
        /\ zeroed' = (cycles[c].timestamp - prevSendTimestamp <= 0)
  /\ deltaSum' = [n \in Names |-> Num(0)]
  /\ call' = NoCall
  /\ UNCHANGED <<handles, sendInterval, now, lastTick, accepted, lastWrite,
                 owed, ops, budget>>

\* a reset that leaves every value undefined
ClearedUndefined(metric) == Undefined

\* a reset that clears the rate values only
ClearedRateOnly(metric) == IF IsRate(metric) THEN Num(0) ELSE metric.value

\* the value a metric is left with once createTimeSeries has resolved
ClearedValue(metric) == IF IsRate(metric) THEN Num(0) ELSE Undefined

\* createTimeSeries resolves
CreateTimeSeriesResolves(c) ==
  /\ cycles[c].pc = "submitting"
  /\ metricsMap' = [i \in 1..Len(metricsMap) |->
       [metricsMap[i] EXCEPT !.value = ClearedValue(metricsMap[i])]]
  /\ cycles' = [cycles EXCEPT ![c] = Settled(@, "resolved")]
  /\ lastWrite' = [n \in Names |-> Undefined]
  /\ owed' = {}
  /\ clean' = AloneAfter(c)
  /\ zeroed' = zeroed
  /\ call' = NoCall
  /\ UNCHANGED <<prevSendTimestamp, handles, sendInterval, now, lastTick,
                 accepted, deltaSum, ops, budget>>

\* createTimeSeries rejects
CreateTimeSeriesRejects(c) ==
  /\ cycles[c].pc = "submitting"
  /\ cycles' = [cycles EXCEPT ![c] = Settled(@, "submissionError")]
  /\ call' = NoCall
  /\ UNCHANGED <<metricsMap, prevSendTimestamp, handles, sendInterval, now,
                 lastTick, accepted, deltaSum, lastWrite, owed, clean, zeroed, ops,
                 budget>>

\* ------------------------------------------------------ the specification

\* the timestamps the application passes to sendValues
ExplicitTimestamps == {now}

\* the timestamps the application passes to setStartTimestamp
StartTimestamps == {now + s : s \in ClockSteps}

Next ==
  \/ \E n \in Names, t \in CreatedTypes : CreateMetric(n, t)
  \/ \E h \in 1..Len(handles), v \in WrittenValues : WriteCount(h, v)
  \/ \E h \in 1..Len(handles), v \in WrittenValues : WriteRate(h, v)
  \/ \E h \in 1..Len(handles), v \in WrittenValues : Write(h, v)
  \/ \E n \in Names, v \in WrittenValues : WriteUnknownMetric(n, v)
  \/ \E t \in StartTimestamps : SetStartTimestamp(t)
  \/ \E s \in ClockSteps : AdvanceClock(s)
  \/ \E c \in Slots : TimerTick(c)
  \/ \E c \in Slots, t \in ExplicitTimestamps : ExplicitSendValues(c, t)
  \/ \E c \in Slots : RegistrationResolves(c)
  \/ \E c \in Slots : \E ok \in SUBSET (1..Len(cycles[c].requested)) :
       RegistrationRejects(c, ok)
  \/ \E c \in Slots : SendTimeSeries(c)
  \/ \E c \in Slots : CreateTimeSeriesResolves(c)
  \/ \E c \in Slots : CreateTimeSeriesRejects(c)

Spec == Init /\ [][Next]_vars

\* the same program, with more calls in a behaviour
SpecDeep == InitDeep /\ [][Next]_vars

\* the backend answers the createMetricDescriptor requests of cycle c
RegistrationAnswered(c) ==
  \/ RegistrationResolves(c)
  \/ \E ok \in SUBSET (1..Len(cycles[c].requested)) : RegistrationRejects(c, ok)

\* the backend answers the createTimeSeries request of cycle c
CreateTimeSeriesAnswered(c) ==
  CreateTimeSeriesResolves(c) \/ CreateTimeSeriesRejects(c)

\* every backend call is answered, and the event loop runs the continuation of
\* a promise that has resolved
Fairness ==
  \A c \in Slots :
    /\ WF_vars(RegistrationAnswered(c))
    /\ WF_vars(SendTimeSeries(c))
    /\ WF_vars(CreateTimeSeriesAnswered(c))

SpecLive == InitLive /\ [][Next]_vars /\ Fairness


\* --------------------------------------------------------- the properties

\* the accumulated value of every metric, by name
Values(map) == [i \in 1..Len(map) |-> <<map[i].name, map[i].value>>]

\* this step settles cycle c with the outcome
Settles(c, outcome) ==
  /\ cycles[c].pc # "idle"
  /\ cycles'[c].pc = "idle"
  /\ cycles'[c].outcome = outcome

\* this step is cycle c's _sendTimeSeries building its request
BuildsRequest(c) == cycles[c].pc = "registered" /\ cycles'[c].pc # "registered"

\* the entries of a request that are for the metric named name
EntriesFor(request, name) ==
  {j \in 1..Len(request) : request[j].type = DescriptorType(name)}

\* C1: a flush that fails (registration or createTimeSeries rejected) leaves every
\* accumulated value as it was when the flush started, when nothing was written
\* in between
C1_FailedFlushKeepsValues ==
  [][\A c \in Slots :
       /\ Settles(c, "registrationError") \/ Settles(c, "submissionError")
       /\ ~cycles[c].wrote
       => Values(metricsMap') = Values(cycles[c].startMap)]_vars

\* the rate (S / E) * U, and 0 when E <= 0
ExpectedRate(S, E, U) == IF E > 0 THEN Rat(S[1] * U, S[2] * E) ELSE Num(0)

\* C2: a flush submits, for every rate metric, (S / E) * U when E > 0 and 0 when
\* E <= 0, S being the sum of the deltas written since the previous flush and
\* E = timestamp - prevSendTimestamp
C2_SubmittedRate ==
  [][\A c \in Slots : BuildsRequest(c) =>
       \A i \in 1..Len(metricsMap) : IsRate(metricsMap[i]) =>
         /\ EntriesFor(cycles'[c].request, metricsMap[i].name) # {}
         /\ \A j \in EntriesFor(cycles'[c].request, metricsMap[i].name) :
              cycles'[c].request[j].point.value =
                ExpectedRate(deltaSum[metricsMap[i].name],
                             cycles[c].timestamp - prevSendTimestamp,
                             metricsMap[i].rateInterval[1])]_vars

\* C3: a flush submits, for every gauge metric written since the last successful
\* flush (or since its creation), one entry holding the last written value, and
\* no entry for a gauge metric not written since
C3_SubmittedGauge ==
  [][\A c \in Slots : BuildsRequest(c) =>
       \A i \in 1..Len(metricsMap) : ~IsRate(metricsMap[i]) =>
         LET name == metricsMap[i].name
             entries == EntriesFor(cycles'[c].request, name)
         IN IF lastWrite[name] = Undefined
            THEN entries = {}
            ELSE /\ Cardinality(entries) = 1
                 /\ \A j \in entries :
                      cycles'[c].request[j].point.value = lastWrite[name]]_vars

\* C3 witness: a request in flight holds a written gauge's value, and the map
\* holds a gauge that was not written and is not in the request
C3_Witness ==
  \E c \in Slots :
    /\ cycles[c].pc = "submitting"
    /\ ~cycles[c].wrote
    /\ \E j \in 1..Len(cycles[c].request) :
         /\ cycles[c].request[j].point.key = "int64Value"
         /\ cycles[c].request[j].point.value = Num(2)
    /\ \E i \in 1..Len(metricsMap) :
         /\ ~IsRate(metricsMap[i])
         /\ metricsMap[i].value = Undefined
         /\ EntriesFor(cycles[c].request, metricsMap[i].name) = {}

\* C4: when createTimeSeries resolves, every rate metric's value is 0 and every
\* other metric's value is undefined
C4_SuccessClearsValues ==
  [][\A c \in Slots : Settles(c, "resolved") /\ cycles[c].pc = "submitting" =>
       \A i \in 1..Len(metricsMap') :
         metricsMap'[i].value =
           IF IsRate(metricsMap'[i]) THEN Num(0) ELSE Undefined]_vars

\* C4 witness: a cycle has submitted a gauge's value and resolved, and the map
\* holds a rate metric and a gauge, all cleared
C4_Witness ==
  \E c \in Slots :
    /\ cycles[c].pc = "idle"
    /\ cycles[c].outcome = "resolved"
    /\ \E j \in 1..Len(cycles[c].request) :
         cycles[c].request[j].point.key = "int64Value"
    /\ \E i \in 1..Len(metricsMap) : IsRate(metricsMap[i])
    /\ \A i \in 1..Len(metricsMap) :
         metricsMap[i].value = IF IsRate(metricsMap[i]) THEN Num(0) ELSE Undefined

\* C5: writeCount(delta) on a rate metric adds delta to the handle's running
\* total and exactly delta to the metric's accumulated value
C5_WriteCountAddsDelta ==
  [][\A h \in 1..Len(handles) :
       /\ Len(handles') = Len(handles)
       /\ handles'[h].count # handles[h].count
       /\ IsRate(Get(metricsMap, handles[h].metricName))
       => Get(metricsMap', handles[h].metricName).value =
            Plus(Get(metricsMap, handles[h].metricName).value,
                 Num(handles'[h].count - handles[h].count))]_vars

\* C6: a value written while a cycle is suspended in createTimeSeries is still
\* in the accumulator when that cycle's submission has succeeded
C6_LateWriteKept ==
  [][\A c \in Slots : Settles(c, "resolved") /\ cycles[c].pc = "submitting" =>
       \A n \in cycles[c].late :
         Get(metricsMap', n).value \notin {Undefined, Num(0)}]_vars

\* C7: at most one flush cycle is in flight
C7_OneCycleInFlight == Cardinality({c \in Slots : cycles[c].pc # "idle"}) <= 1

\* C8: a cycle whose registration is rejected makes no createTimeSeries call and
\* changes no accumulated value, prevSendTimestamp or registration status; a
\* cycle that starts requests every unregistered metric again; and the next
\* cycle whose submission succeeds has submitted the values that were buffered
\* when the registration failed
C8_RegistrationFailure ==
  [][/\ \A c \in Slots : Settles(c, "registrationError") =>
          /\ cycles[c].pc = "registering"
          /\ cycles'[c].request = <<>>
          /\ Values(metricsMap') = Values(metricsMap)
          /\ prevSendTimestamp' = prevSendTimestamp
          /\ \A i \in 1..Len(metricsMap) :
               metricsMap'[i].responseDescriptor = metricsMap[i].responseDescriptor
     /\ \A c \in Slots : cycles[c].pc = "idle" /\ cycles'[c].pc = "registering" =>
          \A i \in 1..Len(metricsMap) :
            metricsMap[i].responseDescriptor = Undefined =>
              \E j \in 1..Len(cycles'[c].requested) :
                cycles'[c].requested[j].type = DescriptorType(metricsMap[i].name)
     /\ \A c \in Slots : Settles(c, "resolved") /\ cycles[c].pc = "submitting" =>
          \A n \in owed :
            \E j \in EntriesFor(cycles[c].request, n) :
              cycles[c].request[j].point.value = Get(metricsMap, n).value]_vars

\* C9: the backend accepts at most one createMetricDescriptor request for a name
C9_RegisteredAtMostOnce == \A n \in Names : accepted[n] <= 1

\* whether the map holds name with a responseDescriptor
Registered(map, name) ==
  Has(map, name) /\ Get(map, name).responseDescriptor # Undefined

\* C10: a name's registration status changes only from unregistered to
\* registered, only when a registration request for that name has succeeded, and
\* a registered name never becomes unregistered
C10_RegistrationMonotone ==
  [][\A n \in Names :
       /\ Registered(metricsMap, n) => Registered(metricsMap', n)
       /\ ~Registered(metricsMap, n) /\ Registered(metricsMap', n) =>
            \E c \in Slots :
              /\ cycles[c].pc = "registering"
              /\ cycles'[c].pc # "registering"
              /\ cycles'[c].outcome # "registrationError"
              /\ \E j \in 1..Len(cycles[c].requested) :
                   cycles[c].requested[j].type = DescriptorType(n)]_vars

\* C11: a sendValues call made right after a flush has succeeded, with no call
\* to the buffer in between, requests no descriptor and builds an empty request
\* (makes no createTimeSeries call)
C11_SecondFlushSendsNothing ==
  [][\A c \in Slots :
       /\ clean /\ cycles[c].pc = "idle" /\ cycles'[c].pc = "registering" =>
            cycles'[c].requested = <<>>
       /\ clean /\ BuildsRequest(c) =>
            cycles'[c].request = <<>> /\ cycles'[c].pc = "idle"]_vars

\* the metrics of the map that are due in a request: every rate metric and every
\* other metric whose value is not undefined
Due(map) == {i \in 1..Len(map) : IsRate(map[i]) \/ map[i].value # Undefined}

\* C12: the request a cycle builds holds exactly one entry for each rate metric
\* and for each other metric whose value is not undefined, and nothing else;
\* with no such metric the cycle makes no createTimeSeries call and resolves
C12_BatchContents ==
  [][\A c \in Slots : BuildsRequest(c) =>
       LET request == cycles'[c].request IN
       /\ Len(request) = Cardinality(Due(metricsMap))
       /\ \A i \in 1..Len(metricsMap) :
            Cardinality(EntriesFor(request, metricsMap[i].name)) =
              IF i \in Due(metricsMap) THEN 1 ELSE 0
       /\ IF Due(metricsMap) = {}
          THEN cycles'[c].pc = "idle" /\ cycles'[c].outcome = "resolved"
          ELSE cycles'[c].pc = "submitting"]_vars

\* C12 witness: one cycle has resolved without a request, and another is
\* awaiting createTimeSeries with a rate 0 in its request while the map holds a
\* metric that is not in the request
C12_Witness ==
  \E b, c \in Slots :
    /\ cycles[b].pc = "idle" /\ cycles[b].outcome = "resolved"
    /\ cycles[b].request = <<>>
    /\ cycles[c].pc = "submitting"
    /\ \E j \in 1..Len(cycles[c].request) :
         /\ cycles[c].request[j].point.key = "doubleValue"
         /\ cycles[c].request[j].point.value = Num(0)
    /\ \E i \in 1..Len(metricsMap) :
         EntriesFor(cycles[c].request, metricsMap[i].name) = {}

\* C13: a cycle that reaches _sendTimeSeries with a timestamp leaves
\* prevSendTimestamp equal to it, with or without a request, before the outcome
\* of createTimeSeries is known, and the outcome does not change it
C13_TimestampAdvances ==
  [][\A c \in Slots :
       /\ BuildsRequest(c) => prevSendTimestamp' = cycles[c].timestamp
       /\ cycles[c].pc = "submitting" /\ cycles'[c].pc = "idle" =>
            prevSendTimestamp' = prevSendTimestamp]_vars

\* C13 witness: a cycle with a later timestamp has failed in createTimeSeries
\* and prevSendTimestamp is its timestamp
C13_Witness ==
  \E c \in Slots :
    /\ cycles[c].pc = "idle" /\ cycles[c].outcome = "submissionError"
    /\ cycles[c].timestamp > 0
    /\ prevSendTimestamp = cycles[c].timestamp

\* C14: write on a rate metric, and writeRate or writeCount on a metric that is
\* not one, fail and leave the metric's value unchanged; a write to a name that
\* was never created fails and changes nothing
C14_WriteErrors ==
  [][\A n \in Names :
       /\ call' = <<"write", n, "returned">> =>
            ~IsRate(Get(metricsMap, n))
       /\ call' \in {<<"writeRate", n, "returned">>, <<"writeCount", n, "returned">>} =>
            IsRate(Get(metricsMap, n))
       /\ call'[1] \in {"write", "writeRate", "writeCount"} /\ call'[2] = n
          /\ call'[3] # "returned" =>
            Get(metricsMap', n).value = Get(metricsMap, n).value
       /\ call'[1] = "writeMetric" /\ call'[2] = n /\ ~Has(metricsMap, n) =>
            /\ call'[3] # "returned"
            /\ metricsMap' = metricsMap
            /\ prevSendTimestamp' = prevSendTimestamp]_vars

\* C15: an error of a cycle the timer started is caught and logged and leaves
\* the timer running, and an error of a sendValues call of the application
\* rejects the promise the caller holds
C15_ErrorPropagation ==
  [][\A c \in Slots :
       cycles[c].pc # "idle" /\ cycles'[c].pc = "idle"
       /\ cycles'[c].outcome # "resolved" =>
         /\ cycles[c].trigger = "timer" =>
              /\ cycles'[c].report = "warned"
              /\ sendInterval' = sendInterval /\ sendInterval' # 0
              /\ lastTick' = lastTick
         /\ cycles[c].trigger = "explicit" => cycles'[c].report = "rejected"]_vars

\* C15 witness: an explicit call has been rejected, a cycle of the timer has
\* failed with a warning, and the timer is still set
C15_Witness ==
  \E b, c \in Slots :
    /\ cycles[b].trigger = "explicit" /\ cycles[b].report = "rejected"
    /\ cycles[c].trigger = "timer" /\ cycles[c].report = "warned"
    /\ cycles[c].outcome \in {"registrationError", "submissionError"}
    /\ sendInterval # 0

\* C16: a cycle goes from idle to registration, from registration to the
\* submission (or back to idle on failure), from the submission back to idle,
\* never to the submission before its registration has been answered; and a
\* started cycle returns to idle when the backend answers every call
C16_CycleOrder ==
  /\ [][\A c \in Slots :
          /\ cycles[c].pc = "idle" => cycles'[c].pc \in {"idle", "registering"}
          /\ cycles[c].pc = "registering" =>
               cycles'[c].pc \in {"registering", "registered", "idle"}
          /\ cycles[c].pc = "registered" =>
               cycles'[c].pc \in {"registered", "submitting", "idle"}
          /\ cycles[c].pc = "submitting" => cycles'[c].pc \in {"submitting", "idle"}
          /\ cycles'[c].request # cycles[c].request /\ cycles'[c].request # <<>> =>
               cycles[c].pc = "registered"]_vars
  /\ \A c \in Slots : (cycles[c].pc # "idle") ~> (cycles[c].pc = "idle")

\* C16 witness: a cycle is back to idle after its createTimeSeries call resolved
C16_Witness ==
  \E c \in Slots :
    /\ cycles[c].pc = "idle" /\ cycles[c].outcome = "resolved"
    /\ cycles[c].request # <<>>

\* C17: createMetric leaves under the name a record with value 0 for a rate
\* kind and undefined otherwise, without responseDescriptor, whatever record the
\* name had before, and leaves every other record as it was
C17_CreateMetricReplaces ==
  [][Len(handles') = Len(handles) + 1 =>
       LET n == handles'[Len(handles')].metricName
           created == Get(metricsMap', n)
       IN /\ Has(metricsMap', n)
          /\ created.responseDescriptor = Undefined
          /\ created.value = IF created.rateInterval # Undefined
                             THEN Num(0) ELSE Undefined
          /\ created.rateInterval # Undefined => created.valueType = VALUE_TYPE_DOUBLE
          /\ created.requestDescriptor.type = DescriptorType(n)
          /\ created.requestDescriptor.valueType = created.valueType
          /\ Len(metricsMap') =
               IF Has(metricsMap, n) THEN Len(metricsMap) ELSE Len(metricsMap) + 1
          /\ \A i \in 1..Len(metricsMap) :
               metricsMap[i].name # n => metricsMap'[i] = metricsMap[i]]_vars

\* C17 witness: a name that had been registered was created again, as a rate
\* metric, and is now unregistered with value 0
C17_Witness ==
  \E n \in Names :
    /\ accepted[n] >= 1
    /\ Cardinality({h \in 1..Len(handles) : handles[h].metricName = n}) >= 2
    /\ Has(metricsMap, n)
    /\ Get(metricsMap, n).responseDescriptor = Undefined
    /\ Get(metricsMap, n).value = Num(0)
    /\ call = NoCall

\* C18: the value of a rate metric is a number, never undefined
C18_RateValueIsNumber ==
  \A i \in 1..Len(metricsMap) :
    metricsMap[i].rateInterval # Undefined =>
      /\ metricsMap[i].value # Undefined
      /\ Len(metricsMap[i].value) = 2
      /\ metricsMap[i].value[2] > 0

\* C18 witness: a rate metric holds a converted rate that is not an integer
\* while its flush is in flight or has failed
C18_Witness ==
  \E i \in 1..Len(metricsMap) :
    /\ metricsMap[i].rateInterval # Undefined
    /\ metricsMap[i].value # Undefined
    /\ metricsMap[i].value[2] > 1

\* C19: every metric with an entry in the request a cycle builds has a
\* responseDescriptor when the request is built
C19_BatchRegistered ==
  [][\A c \in Slots : BuildsRequest(c) =>
       \A j \in 1..Len(cycles'[c].request) :
         \E i \in 1..Len(metricsMap) :
           /\ metricsMap[i].requestDescriptor.type = cycles'[c].request[j].type
           /\ metricsMap[i].responseDescriptor # Undefined]_vars

\* C20: a cycle of which a registration request is rejected marks no metric
\* registered, and a cycle of which every request is accepted leaves every
\* metric it requested registered
C20_AllOrNothing ==
  [][\A c \in Slots :
       cycles[c].pc = "registering" /\ cycles'[c].pc # "registering" =>
         IF cycles'[c].outcome = "registrationError"
         THEN /\ Len(metricsMap') = Len(metricsMap)
              /\ \A i \in 1..Len(metricsMap) :
                   metricsMap'[i].responseDescriptor = metricsMap[i].responseDescriptor
         ELSE \A j \in 1..Len(cycles[c].requested) :
                Registered(metricsMap', RequestedName(cycles[c].requested[j]))]_vars

\* x <= y
Leq(x, y) == x[1] * y[2] <= y[1] * x[2]

\* C21: a flush whose timestamp is not after prevSendTimestamp sets the value of
\* every rate metric to 0 before it submits, and submits 0 for it; from then to
\* the next flush, whatever the outcome of the submission, a rate metric's value
\* holds no more than the deltas written after that flush
C21_ZeroElapsedDropsDeltas ==
  [][/\ \A c \in Slots :
          BuildsRequest(c) /\ cycles[c].timestamp <= prevSendTimestamp =>
            \A i \in 1..Len(metricsMap) : IsRate(metricsMap[i]) =>
              /\ metricsMap'[i].value = Num(0)
              /\ cycles'[c].pc = "submitting"
              /\ EntriesFor(cycles'[c].request, metricsMap[i].name) # {}
              /\ \A j \in EntriesFor(cycles'[c].request, metricsMap[i].name) :
                   cycles'[c].request[j].point.value = Num(0)
     /\ zeroed' =>
          \A i \in 1..Len(metricsMap') : IsRate(metricsMap'[i]) =>
            Leq(metricsMap'[i].value, deltaSum'[metricsMap'[i].name])]_vars

\* C21 witness: a delta was written to a rate metric, a flush with no elapsed
\* time has failed in createTimeSeries, and the metric's value is 0
C21_Witness ==
  /\ zeroed
  /\ \E c \in Slots : cycles[c].pc = "idle" /\ cycles[c].outcome = "submissionError"
  /\ \E h \in 1..Len(handles) :
       /\ handles[h].count > 0
       /\ IsRate(Get(metricsMap, handles[h].metricName))
       /\ Get(metricsMap, handles[h].metricName).value = Num(0)

====
